---- MODULE Spec2Model ----
\* Reversible action history (source/ts/control/history.ts): the History class,
\* its three containers, the auto-group timeout and the action lock.
\*
\* JavaScript arrays are objects: `heap` maps an array's identity to its
\* elements, so that `undo = this._actions` (an alias) and `undo.reverse()`
\* (an in-place reversal) behave as they do in the program.
EXTENDS Integers, Sequences, FiniteSets, TLC

\* ---------------------------------------------------------------- bounds
MaxActions == 2
MaxStack == 2
MaxTimers == 2
MaxTrail == 5

\* ---------------------------------------------------------------- values
null == 0

ArrayIds == 1..(2 * MaxStack + 2)
TimerIds == 1..(MaxTimers + 1)

\* The two IHistoricAction values the host pushes.
ActionA ==
    [forward  |-> [name |-> "set_x", parameters |-> <<1>>],
     backward |-> [name |-> "set_x", parameters |-> <<0>>]]
ActionB ==
    [forward  |-> [name |-> "set_y", parameters |-> <<2>>],
     backward |-> [name |-> "set_y", parameters |-> <<0>>]]
ActionNames == {"A", "B"}
IHistoricAction(n) == IF n = "A" THEN ActionA ELSE ActionB

\* autogroup_delay?: number -- either left out or some delay T.
Delays == {"undefined", "T"}

VARIABLES
    heap,            \* array identity -> its elements (IHistoricAction[])
    _actions,        \* identity of the pending array
    _action_groups,  \* sequence of array identities
    _undone,         \* sequence of array identities
    _autogroup,      \* timeout handle or null
    _action_lock,    \* boolean
    timers,          \* timeouts scheduled, not yet fired, not cleared
    pc,              \* "idle", or "undo" / "redo" while a top-level call replays
    cur,             \* the local `undo` / `redo` array of the replaying call
    idx,             \* forEach position in cur (1-based)
    inHandler,       \* TRUE while _map.invoke is running a handler
    pushed,          \* history: array identity -> its elements in push order
    calls,           \* history: _map.invoke calls of the current / last call
    lastOp,          \* history: the current / last top-level call
    src,             \* history: where the last undo / redo took its unit
    ret,             \* history: "void", "true" or "raised"
    nested,          \* history: the last call the running handler made
    trail            \* history: calls made since the history was last empty

prog == <<heap, _actions, _action_groups, _undone, _autogroup, _action_lock, timers>>
ctl == <<pc, cur, idx, inHandler>>
hist == <<pushed, calls, lastOp, src, ret, nested, trail>>
vars == <<prog, ctl, hist>>

\* ---------------------------------------------------------------- helpers
Range(s) == {s[i] : i \in 1..Len(s)}
Last(s) == s[Len(s)]
Front(s) == SubSeq(s, 1, Len(s) - 1)
Reverse(s) == [i \in 1..Len(s) |-> s[Len(s) + 1 - i]]
RECURSIVE Dedup(_)
Dedup(s) ==
    IF s = <<>> THEN <<>>
    ELSE LET d == Dedup(Front(s))
         IN  IF Last(s) \in Range(d) THEN d ELSE Append(d, Last(s))
\* The number of actions held by the arrays of heap hp, each array counted once.
Recorded(hp) ==
    Cardinality({e \in (DOMAIN hp) \X (1..MaxActions) : e[2] <= Len(hp[e[1]])})
Forward(s) == [i \in 1..Len(s) |-> s[i].forward]
Backward(s) == [i \in 1..Len(s) |-> s[i].backward]

\* The fields of the History object as one record.
This ==
    [heap |-> heap, pushed |-> pushed, actions |-> _actions,
     groups |-> _action_groups, undone |-> _undone,
     autogroup |-> _autogroup, lock |-> _action_lock, timers |-> timers]

Refs(h) == {h.actions} \cup Range(h.groups) \cup Range(h.undone)

\* `[]`: a fresh array, one that nothing refers to.
NewArray(h) ==
    CHOOSE i \in ArrayIds \ Refs(h) : \A j \in ArrayIds \ Refs(h) : i <= j

\* setTimeout: a fresh handle.
setTimeout(ts) ==
    CHOOSE t \in TimerIds \ ts : \A u \in TimerIds \ ts : t <= u

\* clearTimeout(handle)
clearTimeout(ts, handle) == ts \ {handle}

\* ---------------------------------------------------------------- methods
\* Mutant: push_action that leaves _undone alone (line 77 missing).
push_action_keeps_undone(h, a, autogroup_delay) ==
    IF h.lock THEN h
    ELSE
        LET h1 == [h EXCEPT !.heap[h.actions] = Append(@, a),
                            !.pushed[h.actions] = Append(@, a)]
        IN  IF autogroup_delay # "undefined"
            THEN LET ts == IF h1.autogroup # null
                           THEN clearTimeout(h1.timers, h1.autogroup)
                           ELSE h1.timers
                     t == setTimeout(ts)
                 IN  [h1 EXCEPT !.timers = ts \cup {t}, !.autogroup = t]
            ELSE h1

\* Mutant: push_action that sets a timeout without clearing the one before.
push_action_keeps_timer(h, a, autogroup_delay) ==
    IF h.lock THEN h
    ELSE
        LET h1 == [h EXCEPT !.heap[h.actions] = Append(@, a),
                            !.pushed[h.actions] = Append(@, a),
                            !.undone = <<>>]
        IN  IF autogroup_delay # "undefined"
            THEN LET t == setTimeout(h1.timers)
                 IN  [h1 EXCEPT !.timers = @ \cup {t}, !.autogroup = t]
            ELSE h1

\* Mutant: push_action that does not look at the lock (line 65 missing).
push_action_ignores_lock(h, a, autogroup_delay) ==
    LET h1 == [h EXCEPT !.heap[h.actions] = Append(@, a),
                        !.pushed[h.actions] = Append(@, a),
                        !.undone = <<>>]
    IN  IF autogroup_delay # "undefined"
        THEN LET ts == IF h1.autogroup # null
                       THEN clearTimeout(h1.timers, h1.autogroup)
                       ELSE h1.timers
                 t == setTimeout(ts)
             IN  [h1 EXCEPT !.timers = ts \cup {t}, !.autogroup = t]
        ELSE h1

push_action(h, a, autogroup_delay) ==
    IF h.lock THEN h
    ELSE
        LET h1 == [h EXCEPT !.heap[h.actions] = Append(@, a),
                            !.pushed[h.actions] = Append(@, a),
                            !.undone = <<>>]
        IN  IF autogroup_delay # "undefined"
            THEN LET ts == IF h1.autogroup # null
                           THEN clearTimeout(h1.timers, h1.autogroup)
                           ELSE h1.timers
                     t == setTimeout(ts)
                 IN  [h1 EXCEPT !.timers = ts \cup {t}, !.autogroup = t]
            ELSE h1

\* Mutant: group_actions that commits nothing when no action is pending.
group_actions_skips_empty(h) ==
    LET h1 == [h EXCEPT !.autogroup = null]
    IN  IF h1.lock \/ h1.heap[h1.actions] = <<>> THEN h1
        ELSE LET fresh == NewArray(h1)
             IN  [h1 EXCEPT !.groups = Append(@, h1.actions),
                            !.actions = fresh,
                            !.heap[fresh] = <<>>,
                            !.pushed[fresh] = <<>>,
                            !.undone = <<>>]

\* Mutant: group_actions that keeps the pending array (line 102 missing).
group_actions_keeps_actions(h) ==
    LET h1 == [h EXCEPT !.autogroup = null]
    IN  IF h1.lock THEN h1
        ELSE [h1 EXCEPT !.groups = Append(@, h1.actions), !.undone = <<>>]

group_actions(h) ==
    LET h1 == [h EXCEPT !.autogroup = null]
    IN  IF h1.lock THEN h1
        ELSE LET fresh == NewArray(h1)
             IN  [h1 EXCEPT !.groups = Append(@, h1.actions),
                            !.actions = fresh,
                            !.heap[fresh] = <<>>,
                            !.pushed[fresh] = <<>>,
                            !.undone = <<>>]

\* Mutant: undo that cancels the timeout but does not group.
undo_group_now_only_cancels(h) ==
    IF h.autogroup # null
    THEN [h EXCEPT !.timers = clearTimeout(@, h.autogroup), !.autogroup = null]
    ELSE h

\* undo, lines 110-114: if a timeout is set, group now.
undo_group_now(h) ==
    IF h.autogroup # null
    THEN group_actions([h EXCEPT !.timers = clearTimeout(@, h.autogroup)])
    ELSE h

\* Mutant: undo that reverses the pending array too.
undo_select_reverses_pending(h) ==
    IF Len(h.heap[h.actions]) > 0
    THEN [h |-> [h EXCEPT !.heap[h.actions] = Reverse(@)],
          unit |-> h.actions, src |-> "pending"]
    ELSE IF Len(h.groups) > 0
    THEN LET g == Last(h.groups)
         IN  [h |-> [h EXCEPT !.groups = Front(@), !.heap[g] = Reverse(@)],
              unit |-> g, src |-> "group"]
    ELSE [h |-> h, unit |-> null, src |-> "none"]

\* Mutant: undo that takes the pending array whether or not it is empty.
undo_select_any_pending(h) ==
    [h |-> h, unit |-> h.actions, src |-> "pending"]

\* Mutant: undo that takes the top group before the pending array.
undo_select_prefers_groups(h) ==
    IF Len(h.groups) > 0
    THEN LET g == Last(h.groups)
         IN  [h |-> [h EXCEPT !.groups = Front(@), !.heap[g] = Reverse(@)],
              unit |-> g, src |-> "group"]
    ELSE IF Len(h.heap[h.actions]) > 0
    THEN [h |-> h, unit |-> h.actions, src |-> "pending"]
    ELSE [h |-> h, unit |-> null, src |-> "none"]

\* undo, lines 116-124: the unit to undo.
undo_select(h) ==
    IF Len(h.heap[h.actions]) > 0
    THEN [h |-> h, unit |-> h.actions, src |-> "pending"]
    ELSE IF Len(h.groups) > 0
    THEN LET g == Last(h.groups)
         IN  [h |-> [h EXCEPT !.groups = Front(@), !.heap[g] = Reverse(@)],
              unit |-> g, src |-> "group"]
    ELSE [h |-> h, unit |-> null, src |-> "none"]

\* undo, lines 138-140.
undo_finish(h, unit) == [h EXCEPT !.undone = Append(@, unit)]

\* redo, lines 147-148.
redo_select(h) ==
    IF Len(h.undone) > 0
    THEN [h |-> [h EXCEPT !.undone = Front(@)], unit |-> Last(h.undone), src |-> "undone"]
    ELSE [h |-> h, unit |-> null, src |-> "none"]

\* redo, lines 162-163.
redo_finish(h, unit) == [h EXCEPT !.groups = Append(@, unit)]

\* Mutant: a locked undo that releases the lock as an unlocked one does.
undo_locked_releases_lock(h) ==
    LET sel == undo_select(undo_group_now(h))
    IN  IF sel.unit = null THEN sel.h
        ELSE [undo_finish(sel.h, sel.unit) EXCEPT !.lock = FALSE]

\* The whole of undo / redo when the lock is already held: no replay.
undo_locked(h) ==
    LET sel == undo_select(undo_group_now(h))
    IN  IF sel.unit = null THEN sel.h ELSE undo_finish(sel.h, sel.unit)

redo_locked(h) ==
    LET sel == redo_select(h)
    IN  IF sel.unit = null THEN sel.h ELSE redo_finish(sel.h, sel.unit)

\* ---------------------------------------------------------------- state update
IsEmpty(h) ==
    /\ h.heap[h.actions] = <<>>
    /\ h.groups = <<>>
    /\ h.undone = <<>>
    /\ h.timers = {}

Overflow == <<<<"more", "", "">>>>

Log(h, idle, e) ==
    IF idle /\ IsEmpty(h) THEN <<>>
    ELSE IF trail = Overflow \/ Len(trail) >= MaxTrail THEN Overflow
    ELSE Append(trail, e)

\* The object's fields become h; c is the array the replaying call holds.
\* Array identities and timeout handles are opaque. Arrays nothing refers to any
\* more are collected and the live ones are numbered in the order _actions,
\* _action_groups, _undone, c reaches them (uniq); the outstanding timeouts are
\* numbered with the one _autogroup names last.
Assign(h, c, uniq, k) ==
    /\ heap' = [n \in ArrayIds |-> IF n <= Len(uniq) THEN h.heap[uniq[n]] ELSE <<>>]
    /\ pushed' = [n \in ArrayIds |-> IF n <= Len(uniq) THEN h.pushed[uniq[n]] ELSE <<>>]
    /\ _actions' = CHOOSE n \in 1..Len(uniq) : uniq[n] = h.actions
    /\ _action_groups' =
           [i \in 1..Len(h.groups) |-> CHOOSE n \in 1..Len(uniq) : uniq[n] = h.groups[i]]
    /\ _undone' =
           [i \in 1..Len(h.undone) |-> CHOOSE n \in 1..Len(uniq) : uniq[n] = h.undone[i]]
    /\ _autogroup' = IF h.autogroup = null THEN null ELSE k + 1
    /\ _action_lock' = h.lock
    /\ timers' = (1..k) \cup (IF h.autogroup \in h.timers THEN {k + 1} ELSE {})
    /\ cur' = IF c = null THEN null ELSE CHOOSE n \in 1..Len(uniq) : uniq[n] = c

Becomes(h, c) ==
    \E hh \in {h} :
    \E uniq \in {Dedup(<<hh.actions>> \o hh.groups \o hh.undone
                            \o (IF c = null THEN <<>> ELSE <<c>>))} :
        Assign(hh, c, uniq, Cardinality(hh.timers \ {hh.autogroup}))

Init ==
    /\ heap = [i \in ArrayIds |-> <<>>]
    /\ pushed = [i \in ArrayIds |-> <<>>]
    /\ _actions = 1
    /\ _action_groups = <<>>
    /\ _undone = <<>>
    /\ _autogroup = null
    /\ _action_lock = FALSE
    /\ timers = {}
    /\ pc = "idle"
    /\ cur = null
    /\ idx = 0
    /\ inHandler = FALSE
    /\ calls = <<>>
    /\ lastOp = "none"
    /\ src = "none"
    /\ ret = "void"
    /\ nested = "none"
    /\ trail = <<>>

\* ---------------------------------------------------------------- host calls
PushAction(n, d) ==
    /\ pc = "idle"
    /\ Recorded(heap) < MaxActions
    /\ d # "undefined" =>
           Cardinality(IF _autogroup # null THEN timers \ {_autogroup} ELSE timers) < MaxTimers
    /\ \E h \in {push_action(This, IHistoricAction(n), d)} :
           /\ Becomes(h, null)
           /\ trail' = Log(h, TRUE, <<"push", n, d>>)
    /\ calls' = <<>>
    /\ lastOp' = "push"
    /\ src' = "none"
    /\ ret' = "void"
    /\ UNCHANGED <<pc, idx, inHandler, nested>>

GroupActions ==
    /\ pc = "idle"
    /\ Len(_action_groups) < MaxStack
    /\ \E h \in {group_actions(This)} :
           /\ Becomes(h, null)
           /\ trail' = Log(h, TRUE, <<"group", "", "">>)
    /\ calls' = <<>>
    /\ lastOp' = "group"
    /\ src' = "none"
    /\ ret' = "void"
    /\ UNCHANGED <<pc, idx, inHandler, nested>>

\* The timeout set at lines 88-90 fires: group_actions().
TimerFires(t) ==
    /\ pc = "idle"
    /\ t \in timers
    /\ Len(_action_groups) < MaxStack
    /\ \E h \in {group_actions([This EXCEPT !.timers = @ \ {t}])} :
           /\ Becomes(h, null)
           /\ trail' = Log(h, TRUE, <<"timer", "", "">>)
    /\ calls' = <<>>
    /\ lastOp' = "timer"
    /\ src' = "none"
    /\ ret' = "void"
    /\ UNCHANGED <<pc, idx, inHandler, nested>>

\* undo() up to the start of the replay (or to its return when there is none).
Undo ==
    /\ pc = "idle"
    /\ Len(_undone) < MaxStack
    /\ _autogroup # null => Len(_action_groups) < MaxStack
    /\ \E sel \in {undo_select(undo_group_now(This))} :
           IF sel.unit = null
           THEN /\ Becomes(sel.h, null)
                /\ trail' = Log(sel.h, TRUE, <<"undo", "", "">>)
                /\ ret' = "true"
                /\ src' = sel.src
                /\ UNCHANGED <<pc, idx>>
           ELSE IF ~sel.h.lock
           THEN /\ Becomes([sel.h EXCEPT !.lock = TRUE], sel.unit)
                /\ trail' = Log(sel.h, FALSE, <<"undo", "", "">>)
                /\ pc' = "undo"
                /\ idx' = 1
                /\ ret' = "void"
                /\ src' = sel.src
           ELSE /\ Becomes(undo_finish(sel.h, sel.unit), null)
                /\ trail' = Log(sel.h, FALSE, <<"undo", "", "">>)
                /\ ret' = "true"
                /\ src' = sel.src
                /\ UNCHANGED <<pc, idx>>
    /\ calls' = <<>>
    /\ lastOp' = "undo"
    /\ UNCHANGED <<inHandler, nested>>

\* redo() up to the start of the replay (or to its return when there is none).
Redo ==
    /\ pc = "idle"
    /\ Len(_action_groups) < MaxStack
    /\ \E sel \in {redo_select(This)} :
           IF sel.unit = null
           THEN /\ Becomes(sel.h, null)
                /\ trail' = Log(sel.h, TRUE, <<"redo", "", "">>)
                /\ ret' = "true"
                /\ src' = sel.src
                /\ UNCHANGED <<pc, idx>>
           ELSE IF ~sel.h.lock
           THEN /\ Becomes([sel.h EXCEPT !.lock = TRUE], sel.unit)
                /\ trail' = Log(sel.h, FALSE, <<"redo", "", "">>)
                /\ pc' = "redo"
                /\ idx' = 1
                /\ ret' = "void"
                /\ src' = sel.src
           ELSE /\ Becomes(redo_finish(sel.h, sel.unit), null)
                /\ trail' = Log(sel.h, FALSE, <<"redo", "", "">>)
                /\ ret' = "true"
                /\ src' = sel.src
                /\ UNCHANGED <<pc, idx>>
    /\ calls' = <<>>
    /\ lastOp' = "redo"
    /\ UNCHANGED <<inHandler, nested>>

\* ---------------------------------------------------------------- replay
\* forEach reaches element idx and calls this._map.invoke(name, parameters).
Invoke ==
    /\ pc \in {"undo", "redo"}
    /\ ~inHandler
    /\ idx <= Len(heap[cur])
    /\ calls' = Append(calls, IF pc = "undo" THEN heap[cur][idx].backward
                                             ELSE heap[cur][idx].forward)
    /\ inHandler' = TRUE
    /\ UNCHANGED <<prog, pc, cur, idx, pushed, lastOp, src, ret, nested, trail>>

\* The handler returns; forEach moves on.
InvokeReturns ==
    /\ inHandler
    /\ inHandler' = FALSE
    /\ idx' = idx + 1
    /\ nested' = "none"
    /\ UNCHANGED <<prog, pc, cur, pushed, calls, lastOp, src, ret, trail>>

\* Mutant: a throwing handler without the `finally` of lines 133-135.
InvokeThrows_no_finally ==
    /\ inHandler
    /\ Becomes(This, null)
    /\ trail' = Log(This, TRUE, <<"throw", "", "">>)
    /\ pc' = "idle"
    /\ idx' = 0
    /\ inHandler' = FALSE
    /\ ret' = "raised"
    /\ nested' = "none"
    /\ UNCHANGED <<calls, lastOp, src>>

\* Mutant: a throwing handler after which the rest of the unit is still
\* invoked before the failure reaches the caller.
InvokeThrows_then_continues ==
    /\ inHandler
    /\ Becomes([This EXCEPT !.lock = FALSE], null)
    /\ trail' = Log([This EXCEPT !.lock = FALSE], TRUE, <<"throw", "", "">>)
    /\ calls' = calls \o [i \in 1..(Len(heap[cur]) - idx) |->
                             IF pc = "undo" THEN heap[cur][idx + i].backward
                                            ELSE heap[cur][idx + i].forward]
    /\ pc' = "idle"
    /\ idx' = 0
    /\ inHandler' = FALSE
    /\ ret' = "raised"
    /\ nested' = "none"
    /\ UNCHANGED <<lastOp, src>>

\* The handler throws: forEach is abandoned, `finally` releases the lock and
\* the exception leaves undo / redo before the unit is pushed anywhere.
InvokeThrows ==
    /\ inHandler
    /\ Becomes([This EXCEPT !.lock = FALSE], null)
    /\ trail' = Log([This EXCEPT !.lock = FALSE], TRUE, <<"throw", "", "">>)
    /\ pc' = "idle"
    /\ idx' = 0
    /\ inHandler' = FALSE
    /\ ret' = "raised"
    /\ nested' = "none"
    /\ UNCHANGED <<calls, lastOp, src>>

\* forEach is over: `finally`, then lines 139-140 (undo) or 163-165 (redo).
ReplayDone ==
    /\ pc \in {"undo", "redo"}
    /\ ~inHandler
    /\ idx > Len(heap[cur])
    /\ \E h \in {IF pc = "undo"
                    THEN undo_finish([This EXCEPT !.lock = FALSE], cur)
                    ELSE redo_finish([This EXCEPT !.lock = FALSE], cur)} :
           /\ Becomes(h, null)
           /\ trail' = IF IsEmpty(h) THEN <<>> ELSE trail
    /\ pc' = "idle"
    /\ idx' = 0
    /\ ret' = "true"
    /\ UNCHANGED <<inHandler, calls, lastOp, src, nested>>

\* ---------------------------------------------------------------- calls made by a handler
Nested(h, call) ==
    /\ Becomes(h, cur)
    /\ trail' = Overflow
    /\ nested' = call
    /\ UNCHANGED <<pc, idx, inHandler, calls, lastOp, src, ret>>

HandlerPushAction(n, d) ==
    /\ inHandler
    /\ Nested(push_action(This, IHistoricAction(n), d), "push_action")

HandlerGroupActions ==
    /\ inHandler
    /\ Nested(group_actions(This), "group_actions")

HandlerUndo ==
    /\ inHandler
    /\ Len(_undone) + (IF pc = "undo" THEN 1 ELSE 0) < MaxStack
    /\ Nested(undo_locked(This), "undo")

HandlerRedo ==
    /\ inHandler
    /\ Len(_action_groups) + (IF pc = "redo" THEN 1 ELSE 0) < MaxStack
    /\ Nested(redo_locked(This), "redo")

\* ---------------------------------------------------------------- specification
Next ==
    \/ \E n \in ActionNames, d \in Delays : PushAction(n, d)
    \/ GroupActions
    \/ \E t \in TimerIds : TimerFires(t)
    \/ Undo
    \/ Redo
    \/ Invoke
    \/ InvokeReturns
    \/ InvokeThrows
    \/ ReplayDone
    \/ \E n \in ActionNames, d \in Delays : HandlerPushAction(n, d)
    \/ HandlerGroupActions
    \/ HandlerUndo
    \/ HandlerRedo

Spec == Init /\ [][Next]_vars

\* ---------------------------------------------------------------- sanity
TypeOK ==
    /\ _actions \in ArrayIds
    /\ Range(_action_groups) \subseteq ArrayIds
    /\ Range(_undone) \subseteq ArrayIds
    /\ _autogroup \in TimerIds \cup {null}
    /\ _autogroup # null => _autogroup \in timers
    /\ timers \subseteq TimerIds
    /\ Len(_action_groups) <= MaxStack
    /\ Len(_undone) <= MaxStack
    /\ (pc = "idle") = (cur = null)
    /\ inHandler => pc # "idle" /\ _action_lock
    /\ Recorded(heap) <= MaxActions

\* ---------------------------------------------------------------- reading the history variables
IsPushes(s) == \A i \in 1..Len(s) : s[i][1] = "push"
NoDelay(s) == \A i \in 1..Len(s) : s[i][3] = "undefined"
PushedActions(s) == [i \in 1..Len(s) |-> IHistoricAction(s[i][2])]
\* s ends with the calls ops, after at least one push_action and nothing else.
PushesThen(s, ops) ==
    /\ Len(s) > Len(ops)
    /\ IsPushes(SubSeq(s, 1, Len(s) - Len(ops)))
    /\ \A i \in 1..Len(ops) : s[Len(s) - Len(ops) + i][1] = ops[i]
Pushes(s, ops) == SubSeq(s, 1, Len(s) - Len(ops))
Returned == pc = "idle" /\ ret = "true"
GroupsView == [i \in 1..Len(_action_groups) |-> heap[_action_groups[i]]]
UndoneView == [i \in 1..Len(_undone) |-> heap[_undone[i]]]

\* ---------------------------------------------------------------- claims

\* C1: after pushes a1..an, group_actions, undo and redo, the redo has invoked
\* the forward descriptors in push order a1..an. (Stated as the claim has it;
\* the code replays them in reverse, because undo reversed the group in place.)
C1_RedoForwardInPushOrder ==
    (Returned /\ PushesThen(trail, <<"group", "undo", "redo">>))
        => calls = Forward(PushedActions(Pushes(trail, <<"group", "undo", "redo">>)))

\* C2: every undo that pops a group from _action_groups invokes that group's
\* backward descriptors in reverse push order. (Stated as the claim has it, for
\* the histories in which no handler called back into the object; it fails for
\* a group that a redo put back.)
C2_UndoPoppedGroupInReverse ==
    (Returned /\ lastOp = "undo" /\ src = "group" /\ trail # Overflow)
        => calls = Reverse(Backward(pushed[Last(_undone)]))

\* C3: from an empty history, after n >= 1 push_action calls without delay and
\* no group_actions, one undo invokes the n backward descriptors in push order
\* and a following redo invokes the n forward descriptors in push order.
C3_UngroupedUndoRedo ==
    /\ (pc = "idle" /\ PushesThen(trail, <<"undo">>) /\ NoDelay(Pushes(trail, <<"undo">>)))
           => /\ ret = "true"
              /\ calls = Backward(PushedActions(Pushes(trail, <<"undo">>)))
    /\ (pc = "idle" /\ PushesThen(trail, <<"undo", "redo">>)
                    /\ NoDelay(Pushes(trail, <<"undo", "redo">>)))
           => /\ ret = "true"
              /\ calls = Forward(PushedActions(Pushes(trail, <<"undo", "redo">>)))

C3_Witness ==
    /\ pc = "idle"
    /\ trail = <<<<"push", "A", "undefined">>, <<"push", "B", "undefined">>,
                 <<"undo", "", "">>, <<"redo", "", "">>>>
    /\ calls = <<ActionA.forward, ActionB.forward>>

\* C4: a push_action with the lock clear leaves _undone empty, and a redo called
\* right after it invokes nothing and leaves _action_groups as it was.
C4_PushForeclosesRedo ==
    /\ [](lastOp = "push" => _undone = <<>>)
    /\ [][(lastOp = "push" /\ Redo)
              => /\ pc' = "idle"
                 /\ ret' = "true"
                 /\ calls' = <<>>
                 /\ _action_groups' = _action_groups
                 /\ GroupsView' = GroupsView]_vars

C4_Witness ==
    /\ pc = "idle"
    /\ trail = <<<<"push", "A", "undefined">>, <<"undo", "", "">>,
                 <<"push", "B", "undefined">>, <<"redo", "", "">>>>
    /\ calls = <<>>
    /\ _undone = <<>>

\* C5: with the three containers empty and no timeout armed, undo and redo
\* return true, invoke nothing and change none of the object's fields.
C5_EmptyHistoryNoOp ==
    [][(/\ heap[_actions] = <<>>
        /\ _action_groups = <<>>
        /\ _undone = <<>>
        /\ _autogroup = null
        /\ (Undo \/ Redo))
           => /\ pc' = "idle"
              /\ ret' = "true"
              /\ calls' = <<>>
              /\ UNCHANGED prog]_vars

C5_Witness ==
    /\ pc = "idle"
    /\ lastOp = "undo"
    /\ src = "none"
    /\ ret = "true"
    /\ heap[_actions] = <<>>
    /\ _action_groups = <<>>
    /\ _undone = <<>>

C7_LockReleased ==
    /\ pc = "idle" => ~_action_lock
    /\ (Len(trail) >= 2 /\ trail[Len(trail) - 1][1] = "throw" /\ trail[Len(trail)][1] = "push")
           => /\ heap[_actions] # <<>>
              /\ Last(heap[_actions]) = IHistoricAction(trail[Len(trail)][2])

C7_Witness ==
    /\ pc = "idle"
    /\ ~_action_lock
    /\ trail = <<<<"push", "A", "undefined">>, <<"undo", "", "">>,
                 <<"throw", "", "">>, <<"push", "B", "undefined">>>>
    /\ heap[_actions] = <<ActionA, ActionB>>

\* C8: from an empty history, push_action(a, T), push_action(b) and then the
\* timeout firing leave one committed group [a, b], an empty pending array and
\* no timeout; an undo after that invokes b's then a's backward descriptor and
\* leaves _action_groups without the group.
AutoGrouped(s) ==
    /\ Len(s) >= 3
    /\ s[1][1] = "push" /\ s[1][3] = "T"
    /\ s[2][1] = "push" /\ s[2][3] = "undefined"
    /\ s[3][1] = "timer"

C8_AutoGroupOneGroup ==
    /\ (Len(trail) = 3 /\ AutoGrouped(trail))
           => /\ Len(_action_groups) = 1
              /\ heap[_action_groups[1]] = PushedActions(SubSeq(trail, 1, 2))
              /\ heap[_actions] = <<>>
              /\ _actions # _action_groups[1]
              /\ _autogroup = null
              /\ timers = {}
    /\ (Len(trail) = 4 /\ AutoGrouped(trail) /\ trail[4][1] = "undo" /\ pc = "idle")
           => /\ ret = "true"
              /\ calls = Reverse(Backward(PushedActions(SubSeq(trail, 1, 2))))
              /\ _action_groups = <<>>

C8_Witness ==
    /\ pc = "idle"
    /\ trail = <<<<"push", "A", "T">>, <<"push", "B", "undefined">>,
                 <<"timer", "", "">>, <<"undo", "", "">>>>
    /\ calls = <<ActionB.backward, ActionA.backward>>

\* C9: at most one scheduled auto-group timeout is outstanding. (Stated as the
\* claim has it; group_actions forgets the handle without clearing the timeout.)
C9_AtMostOneTimer == Cardinality(timers) <= 1

\* C10, as claimed: when a handler throws for the k-th action of a unit of n,
\* all n actions have been invoked by the time the failure reaches the caller.
C10_BestEffortReplay ==
    [][(inHandler /\ ret' = "raised") => Len(calls') = Len(heap[cur])]_vars

\* C10, amended: when a handler throws for the k-th action, the replay stops
\* there (k invocations, none for k+1..n), the lock is released and the failure
\* reaches the caller of undo / redo.
C10_ReplayStopsAtFailure ==
    [][(inHandler /\ (ret' = "raised" \/ pc' = "idle"))
           => /\ pc' = "idle"
              /\ ret' = "raised"
              /\ ~_action_lock'
              /\ calls' = calls
              /\ Len(calls) = idx]_vars

C10_Witness ==
    /\ pc = "idle"
    /\ ret = "raised"
    /\ trail = <<<<"push", "A", "undefined">>, <<"push", "B", "undefined">>,
                 <<"undo", "", "">>, <<"throw", "", "">>>>
    /\ calls = <<ActionA.backward>>

\* C11: undo on a non-empty pending buffer [a1..an] followed by push_action(X)
\* leaves the pending buffer holding exactly [X]. (Stated as the claim has it;
\* undo keeps the pending array in place, so X is appended behind a1..an.)
C11_PushAfterUndoStartsAfresh ==
    (pc = "idle" /\ PushesThen(trail, <<"undo", "push">>))
        => heap[_actions] = <<IHistoricAction(Last(trail)[2])>>

\* ---------------------------------------------------------------- containers
\* The arrays the three containers hold, pending buffer first.
Units == <<_actions>> \o _action_groups \o _undone

\* C12: between calls every unit of actions lies in exactly one place: not in
\* the pending buffer and a stack at once, not in both stacks, not twice in a
\* stack. (Stated as the claim has it; undo of the pending buffer pushes the
\* pending array itself onto the undone stack.)
C12_UnitsInOnePlace ==
    pc = "idle" => Len(Dedup(Units)) = Len(Units)

\* ---------------------------------------------------------------- undo with a timeout set
\* C13: undo called while the auto-group timeout is set cancels that timeout,
\* commits the pending array as one group and takes that group as the unit to
\* replay, which starts with the lock taken and _undone emptied by the commit.
\* For a history of pushes (one at least with a delay) followed by undo, whose
\* handlers do not call back: when undo has returned, the backward descriptors
\* were invoked in reverse push order, the pending array is empty and a fresh
\* one, no timeout is set or outstanding, and the unit is the one entry of
\* _undone.
C13_UndoCommitsArmedBuffer ==
    /\ [][(_autogroup # null /\ Undo)
              => /\ Cardinality(timers') = Cardinality(timers) - 1
                 /\ _autogroup' = null
                 /\ pc' = "undo"
                 /\ src' = "group"
                 /\ heap'[cur'] = Reverse(heap[_actions])
                 /\ heap'[_actions'] = <<>>
                 /\ Len(_action_groups') = Len(_action_groups)
                 /\ _undone' = <<>>]_vars
    /\ [](\A unit \in {PushedActions(Pushes(trail, <<"undo">>))} :
              (Returned /\ PushesThen(trail, <<"undo">>)
                        /\ ~NoDelay(Pushes(trail, <<"undo">>)))
                  => /\ calls = Reverse(Backward(unit))
                     /\ heap[_actions] = <<>>
                     /\ _autogroup = null
                     /\ timers = {}
                     /\ _action_groups = <<>>
                     /\ UndoneView = <<Reverse(unit)>>
                     /\ _actions # Last(_undone))

C13_Witness ==
    /\ pc = "idle"
    /\ ret = "true"
    /\ trail = <<<<"push", "A", "T">>, <<"push", "B", "undefined">>,
                 <<"undo", "", "">>>>
    /\ calls = <<ActionB.backward, ActionA.backward>>
    /\ UndoneView = <<<<ActionB, ActionA>>>>

\* ---------------------------------------------------------------- alternation
\* C14: the backward descriptor of a recorded action is not invoked twice
\* without its forward descriptor in between; in particular a second undo right
\* after an undo of the pending actions invokes none of their backward
\* descriptors again. (Stated as the claim has it; the pending array stays in
\* place after undo, so the second undo replays it once more.)
C14_NoBackwardTwiceInARow ==
    (Returned /\ PushesThen(trail, <<"undo", "undo">>))
        => \A i \in 1..Len(calls) :
               calls[i] \notin Range(Backward(PushedActions(Pushes(trail, <<"undo", "undo">>))))

\* ---------------------------------------------------------------- timeouts after undo
\* C15: once undo has returned, no timeout callback runs that empties _undone
\* or commits one more group, so a redo right after still finds the unit undo
\* left. (Stated as the claim has it; a timeout that group_actions left
\* scheduled fires after the undo and runs group_actions.)
C15_NoTimerAfterUndo ==
    [][(pc = "idle" /\ lastOp = "undo" /\ lastOp' = "timer")
           => /\ _undone' = _undone
              /\ UndoneView' = UndoneView
              /\ Len(_action_groups') = Len(_action_groups)]_vars

\* ---------------------------------------------------------------- failure and the stacks
\* C16: when a handler throws while undo replays a group popped from
\* _action_groups, or redo a unit popped from _undone, that unit is in
\* _action_groups or in _undone once the failure has reached the caller.
\* (Stated as the claim has it; the push that follows the replay is skipped by
\* the exception, and the popped unit is in neither stack.)
C16_FailedReplayKeepsUnit ==
    [][(inHandler /\ ret' = "raised" /\ src \in {"group", "undone"})
           => heap[cur] \in Range(GroupsView') \cup Range(UndoneView')]_vars

\* ---------------------------------------------------------------- undo / redo under the lock
\* C17: undo or redo called by a handler, hence with the lock held, invokes
\* nothing, moves the unit it selects (the pending array, else the top group
\* reversed, onto _undone; the top of _undone onto _action_groups), and leaves
\* the lock held: the lock is held in every state of a replay and released only
\* where the outer call ends.
C17_LockedUndoRedoMoveOnly ==
    /\ [](pc # "idle" => _action_lock)
    /\ [][(inHandler /\ inHandler' /\ nested' \in {"undo", "redo"})
              => /\ calls' = calls
                 /\ _action_lock'
                 /\ pc' = pc /\ idx' = idx]_vars
    /\ [][(inHandler /\ inHandler' /\ nested' = "undo")
              => IF heap[_actions] # <<>>
                 THEN /\ UndoneView' = Append(UndoneView, heap[_actions])
                      /\ Last(_undone') = _actions'
                      /\ GroupsView' = GroupsView
                 ELSE IF _action_groups # <<>>
                 THEN /\ Len(_undone') = Len(_undone) + 1
                      /\ Last(UndoneView') = Reverse(heap[Last(_action_groups)])
                      /\ Len(_action_groups') = Len(_action_groups) - 1
                 ELSE /\ UndoneView' = UndoneView
                      /\ GroupsView' = GroupsView]_vars
    /\ [][(inHandler /\ inHandler' /\ nested' = "redo")
              => IF _undone # <<>>
                 THEN /\ UndoneView' = Front(UndoneView)
                      /\ GroupsView' = Append(GroupsView, Last(UndoneView))
                 ELSE /\ UndoneView' = UndoneView
                      /\ GroupsView' = GroupsView]_vars

C17_Witness ==
    /\ inHandler
    /\ nested = "undo"
    /\ pc = "redo"
    /\ _action_lock
    /\ Len(calls) = 1
    /\ Len(_undone) = 1
    /\ heap[_actions] = <<>>

\* ---------------------------------------------------------------- undo of the pending actions
\* A group, a later push without delay, and undo.
GroupThenPending(s) ==
    /\ Len(s) = 4
    /\ s[1][1] = "push"
    /\ s[2][1] \in {"group", "timer"}
    /\ s[3][1] = "push" /\ s[3][3] = "undefined"
    /\ s[4][1] = "undo"

\* C18: with no timeout set and a non-empty pending array, undo selects the
\* pending array and pops no group; the steps of that undo invoke the backward
\* descriptors of the pending actions only and leave _action_groups as it was
\* (same groups, same order); undo pops a group only when the pending array is
\* empty.
C18_UndoPrefersPending ==
    /\ [][(_autogroup = null /\ heap[_actions] # <<>> /\ Undo)
              => /\ pc' = "undo"
                 /\ src' = "pending"
                 /\ cur' = _actions'
                 /\ heap'[cur'] = heap[_actions]
                 /\ _action_groups' = _action_groups
                 /\ GroupsView' = GroupsView]_vars
    /\ [][(pc = "undo" /\ src = "pending" /\ ~(inHandler /\ inHandler'))
              => /\ GroupsView' = GroupsView
                 /\ calls' = SubSeq(Backward(heap[cur]), 1, Len(calls'))
                 /\ (pc' = "idle" /\ ret' = "true") => calls = Backward(heap[cur])]_vars
    /\ [][(Undo /\ Len(_action_groups') < Len(_action_groups))
              => heap[_actions] = <<>>]_vars
    /\ [](Returned /\ GroupThenPending(trail)
              => /\ calls = <<IHistoricAction(trail[3][2]).backward>>
                 /\ GroupsView = <<<<IHistoricAction(trail[1][2])>>>>)

C18_Witness ==
    /\ pc = "idle"
    /\ ret = "true"
    /\ trail = <<<<"push", "A", "undefined">>, <<"group", "", "">>,
                 <<"push", "B", "undefined">>, <<"undo", "", "">>>>
    /\ calls = <<ActionB.backward>>
    /\ GroupsView = <<<<ActionA>>>>

\* ---------------------------------------------------------------- empty groups
\* A push, group_actions twice (the second with nothing pending), then undo
\* once or twice.
EmptyGroupThenUndo(s) ==
    /\ Len(s) >= 4
    /\ s[1][1] = "push" /\ s[1][3] = "undefined"
    /\ s[2][1] = "group"
    /\ s[3][1] = "group"
    /\ \A i \in 4..Len(s) : s[i][1] = "undo"

\* C19: group_actions with nothing pending pushes a group of no actions; the
\* undo that follows pops that group and no other, invokes nothing and returns
\* true with the empty group on _undone; the group below is reverted by the
\* undo after that.
C19_EmptyGroupTakesOneUndo ==
    /\ [][(heap[_actions] = <<>> /\ GroupActions)
              => /\ GroupsView' = Append(GroupsView, <<>>)
                 /\ heap'[_actions'] = <<>>]_vars
    /\ [][(lastOp = "group" /\ heap[Last(_action_groups)] = <<>> /\ Undo)
              => /\ pc' = "undo"
                 /\ src' = "group"
                 /\ heap'[cur'] = <<>>
                 /\ calls' = <<>>
                 /\ GroupsView' = Front(GroupsView)]_vars
    /\ [][(pc = "undo" /\ heap[cur] = <<>>)
              => /\ pc' = "idle"
                 /\ ret' = "true"
                 /\ calls' = <<>>
                 /\ GroupsView' = GroupsView
                 /\ UndoneView' = Append(UndoneView, <<>>)]_vars
    /\ []((Returned /\ EmptyGroupThenUndo(trail) /\ Len(trail) = 4)
              => /\ calls = <<>>
                 /\ GroupsView = <<<<IHistoricAction(trail[1][2])>>>>
                 /\ UndoneView = <<<<>>>>)
    /\ []((Returned /\ EmptyGroupThenUndo(trail) /\ Len(trail) = 5)
              => /\ calls = <<IHistoricAction(trail[1][2]).backward>>
                 /\ GroupsView = <<>>
                 /\ UndoneView = <<<<>>, <<IHistoricAction(trail[1][2])>>>>)

C19_Witness ==
    /\ pc = "idle"
    /\ ret = "true"
    /\ trail = <<<<"push", "A", "undefined">>, <<"group", "", "">>,
                 <<"group", "", "">>, <<"undo", "", "">>>>
    /\ calls = <<>>
    /\ GroupsView = <<<<ActionA>>>>
    /\ UndoneView = <<<<>>>>

\* ---------------------------------------------------------------- resetting the timeout
\* Pushes that all carry a delay, two at least, then the timeout firing.
DelayedPushes(s) ==
    /\ Len(s) >= 2
    /\ IsPushes(s)
    /\ \A i \in 1..Len(s) : s[i][3] = "T"

====
